---- MODULE Spec2Model ----
(***************************************************************************)
(* A model of the UFCStats scraper (scripts/scrape_ufcstats.py): the clock *)
(* and value parsers, the per-fight stats extractor parse_fight_stats and  *)
(* the event parser parse_event.                                           *)
(*                                                                         *)
(* Representation.  A text (Python str) is a sequence of one-character     *)
(* strings.  An optional value (Python None or a value) is a sequence of   *)
(* length 0 or 1: None == <<>>, Some(v) == <<v>>.  A call that may raise   *)
(* returns a record with a field "raised".                                 *)
(***************************************************************************)
EXTENDS Integers, Sequences, FiniteSets, TLC

VARIABLES
    pc,             \* position of parse_event: start, rows, done, raised, idle
    page,           \* the static event page being parsed
    rowIdx,         \* index of the next <tr> of the fight table
    event_name,     \* parse_event's local event_name
    event_date,     \* parse_event's local event_date
    fighters_dict,  \* parse_event's fighters_dict, in insertion order
    fights_rows,    \* parse_event's fights_rows
    stats_rows,     \* parse_event's stats_rows
    run,            \* 1 for the first parse of the page, 2 for the re-parse
    first,          \* what the first parse returned (kept for the re-parse)
    call,           \* the arguments of the last call of the function under study
    ret,            \* what that call returned
    site,           \* the pages the loaders fetch: the listing and the events
    loader,         \* the running loader of etl_ufcstats.py: [fn, pc, arg]
    event_urls,     \* load_recent_events' event_urls
    urlIdx,         \* index of the next url of its loop
    seen_fighter_ids,   \* load_recent_events' seen_fighter_ids
    db              \* the tables fighters, fights and fighter_stats

\* the state of the loaders
etl_vars == <<site, loader, event_urls, urlIdx, seen_fighter_ids, db>>

vars == <<pc, page, rowIdx, event_name, event_date, fighters_dict,
          fights_rows, stats_rows, run, first, call, ret, etl_vars>>

None == <<>>
Some(v) == <<v>>

EmptyDb == [fighters |-> <<>>, fights |-> <<>>, fighter_stats |-> <<>>]

\* no loader runs
EtlIdle ==
    /\ site = [listing |-> [fetch |-> "raise", hrefs |-> <<>>], events |-> <<>>]
    /\ loader = [fn |-> "none", pc |-> "idle", arg |-> 0]
    /\ event_urls = <<>>
    /\ urlIdx = 1
    /\ seen_fighter_ids = {}
    /\ db = EmptyDb

----------------------------------------------------------------------------
(* Python str primitives on texts.                                          *)

DecDigits == <<"0", "1", "2", "3", "4", "5", "6", "7", "8", "9">>

\* A character for which str.isdigit() holds and which int() rejects
\* (U+00B2 SUPERSCRIPT TWO and its like).
Sup2 == "sup2"

IsDecimal(c) == \E i \in 1..Len(DecDigits) : DecDigits[i] = c

DigitVal(c) == (CHOOSE i \in 1..Len(DecDigits) : DecDigits[i] = c) - 1

\* str.isdigit() for one character
IsDigitChar(c) == IsDecimal(c) \/ c = Sup2

\* str.isdigit(): non-empty and every character a digit
IsDigit(s) == Len(s) > 0 /\ \A i \in 1..Len(s) : IsDigitChar(s[i])

IsSpace(c) == c = " "

RECURSIVE LStrip(_)
LStrip(s) == IF s # <<>> /\ IsSpace(Head(s)) THEN LStrip(Tail(s)) ELSE s

RECURSIVE RStrip(_)
RStrip(s) ==
    IF s # <<>> /\ IsSpace(s[Len(s)]) THEN RStrip(SubSeq(s, 1, Len(s) - 1)) ELSE s

\* str.strip()
Strip(s) == RStrip(LStrip(s))

\* str.lower(), on the letters the model's texts use
LowerChar(c) ==
    CASE c = "W" -> "w"
      [] c = "I" -> "i"
      [] c = "N" -> "n"
      [] OTHER -> c

Lower(s) == [i \in 1..Len(s) |-> LowerChar(s[i])]

\* sub in s
Contains(sub, s) ==
    \E i \in 1..(Len(s) - Len(sub) + 1) : SubSeq(s, i, i + Len(sub) - 1) = sub

\* str.split(sep) for a one-character separator
RECURSIVE Split(_, _)
Split(s, sep) ==
    IF \A i \in 1..Len(s) : s[i] # sep
    THEN <<s>>
    ELSE LET k == CHOOSE i \in 1..Len(s) :
                      s[i] = sep /\ \A j \in 1..(i - 1) : s[j] # sep
         IN  <<SubSeq(s, 1, k - 1)>> \o Split(SubSeq(s, k + 1, Len(s)), sep)

\* str.split()[0]: the first whitespace-delimited token of a non-blank text
FirstToken(s) ==
    LET t == LStrip(s)
        n == IF \E i \in 1..Len(t) : IsSpace(t[i])
             THEN (CHOOSE i \in 1..Len(t) :
                       IsSpace(t[i]) /\ \A j \in 1..(i - 1) : ~IsSpace(t[j])) - 1
             ELSE Len(t)
    IN  SubSeq(t, 1, n)

RECURSIVE DigitsValue(_)
DigitsValue(s) ==
    IF s = <<>> THEN 0
    ELSE 10 * DigitsValue(SubSeq(s, 1, Len(s) - 1)) + DigitVal(s[Len(s)])

\* int(s): surrounding whitespace ignored, an optional sign, then decimal
\* digits; anything else is a ValueError (exc).
PyInt(s) ==
    LET t == Strip(s)
        signed == t # <<>> /\ Head(t) \in {"+", "-"}
        body == IF signed THEN Tail(t) ELSE t
    IN  IF body # <<>> /\ \A i \in 1..Len(body) : IsDecimal(body[i])
        THEN [exc |-> FALSE,
              val |-> IF signed /\ Head(t) = "-" THEN 0 - DigitsValue(body)
                      ELSE DigitsValue(body)]
        ELSE [exc |-> TRUE, val |-> 0]

----------------------------------------------------------------------------
(* get_completed_event_urls                                                 *)
(*                                                                          *)
(* A listing page is [fetch, hrefs]: whether get_soup returns it, and the   *)
(* href values of its anchors in document order.  An href is [host, path]:  *)
(* the optional host it names (none for a relative link) and the lexemes of *)
(* its path.  A URL is an href with a host.                                 *)

UFCSTATS_HOST == "www.ufcstats.com"

\* "event-details" in href
HasEventMarker(href) == \E i \in 1..Len(href.path) : href.path[i] = "event-details"

\* urlparse.urljoin(UFCSTATS_BASE, href)
UrlJoin(href) ==
    IF href.host = None THEN [host |-> Some(UFCSTATS_HOST), path |-> href.path] ELSE href

InSeq(x, xs) == \E i \in 1..Len(xs) : xs[i] = x

\* the loop over soup.find_all("a", href=True), from the list so far
RECURSIVE CollectEventUrls(_, _)
CollectEventUrls(hrefs, found) ==
    IF hrefs = <<>> THEN found
    ELSE CollectEventUrls(Tail(hrefs),
             IF HasEventMarker(Head(hrefs)) /\ ~InSeq(UrlJoin(Head(hrefs)), found)
             THEN Append(found, UrlJoin(Head(hrefs)))
             ELSE found)

\* A mutation: the membership test is made on the href, not on the joined URL.
RECURSIVE CollectEventUrls_RawHref(_, _)
CollectEventUrls_RawHref(hrefs, found) ==
    IF hrefs = <<>> THEN found
    ELSE CollectEventUrls_RawHref(Tail(hrefs),
             IF HasEventMarker(Head(hrefs)) /\ ~InSeq(Head(hrefs), found)
             THEN Append(found, UrlJoin(Head(hrefs)))
             ELSE found)

\* xs[:n]
SliceTo(xs, n) ==
    IF n >= 0 THEN SubSeq(xs, 1, IF n < Len(xs) THEN n ELSE Len(xs))
    ELSE SubSeq(xs, 1, Len(xs) + n)

\* A mutation of get_completed_event_urls, with the loop above.
get_completed_event_urls_RawHref(listing, limit) ==
    IF listing.fetch = "raise" THEN [raised |-> TRUE, urls |-> <<>>]
    ELSE [raised |-> FALSE,
          urls |-> IF limit # None
                   THEN SliceTo(CollectEventUrls_RawHref(listing.hrefs, <<>>), limit[1])
                   ELSE CollectEventUrls_RawHref(listing.hrefs, <<>>)]

\* limit is an optional integer
get_completed_event_urls(listing, limit) ==
    IF listing.fetch = "raise" THEN [raised |-> TRUE, urls |-> <<>>]
    ELSE [raised |-> FALSE,
          urls |-> IF limit # None
                   THEN SliceTo(CollectEventUrls(listing.hrefs, <<>>), limit[1])
                   ELSE CollectEventUrls(listing.hrefs, <<>>)]

----------------------------------------------------------------------------
(* parse_time_to_seconds                                                    *)

T_dashes == <<"-", "-">>
T_zero == <<"0", ":", "0", "0">>

\* the try block: "minutes, seconds = time_str.split(':')" and the two int()
ClockTry(t) ==
    LET parts == Split(t, ":")
    IN  IF Len(parts) # 2 THEN [exc |-> TRUE, val |-> 0]
        ELSE LET m == PyInt(parts[1])
                 s == PyInt(parts[2])
             IN  IF m.exc \/ s.exc THEN [exc |-> TRUE, val |-> 0]
                 ELSE [exc |-> FALSE, val |-> m.val * 60 + s.val]

\* A mutation: the special cases "--" and "0:00" are not recognised.
parse_time_to_seconds_NoDashes(time_str) ==
    IF time_str = None \/ time_str[1] = <<>>
    THEN [raised |-> FALSE, val |-> None]
    ELSE LET r == ClockTry(Strip(time_str[1]))
         IN  [raised |-> FALSE, val |-> IF r.exc THEN None ELSE Some(r.val)]

\* time_str is an optional text; the result's val is an optional integer
parse_time_to_seconds(time_str) ==
    IF time_str = None \/ time_str[1] = <<>>
    THEN [raised |-> FALSE, val |-> None]
    ELSE LET t == Strip(time_str[1])
         IN  IF t \in {T_dashes, T_zero}
             THEN [raised |-> FALSE, val |-> Some(0)]
             ELSE LET r == ClockTry(t)
                  IN  [raised |-> FALSE,
                       val |-> IF r.exc THEN None ELSE Some(r.val)]

----------------------------------------------------------------------------
(* parse_x_of_y: re.search(r"(\d+)\s*of\s*(\d+)", text)                     *)

\* the last index of the run of decimal digits that starts at i
RECURSIVE RunEnd(_, _)
RunEnd(s, i) == IF i < Len(s) /\ IsDecimal(s[i + 1]) THEN RunEnd(s, i + 1) ELSE i

\* the first index at or after i that holds no whitespace (Len(s) + 1 if none)
RECURSIVE SkipSpaces(_, _)
SkipSpaces(s, i) == IF i <= Len(s) /\ IsSpace(s[i]) THEN SkipSpaces(s, i + 1) ELSE i

\* the pattern matches with its first group starting at index a
XofYMatchAt(s, a) ==
    /\ IsDecimal(s[a])
    /\ LET o == SkipSpaces(s, RunEnd(s, a) + 1)
       IN  /\ o + 1 <= Len(s)
           /\ s[o] = "o"
           /\ s[o + 1] = "f"
           /\ LET c == SkipSpaces(s, o + 2)
              IN  c <= Len(s) /\ IsDecimal(s[c])

\* A mutation: re.match for re.search, so the pattern must start the text.
parse_x_of_y_Match(text) ==
    IF text = None \/ text[1] = <<>> THEN <<None, None>>
    ELSE LET s == text[1]
         IN  IF ~XofYMatchAt(s, 1) THEN <<None, None>>
             ELSE LET b == RunEnd(s, 1)
                      c == SkipSpaces(s, SkipSpaces(s, b + 1) + 2)
                  IN  <<Some(DigitsValue(SubSeq(s, 1, b))),
                        Some(DigitsValue(SubSeq(s, c, RunEnd(s, c))))>>

\* text is an optional text; the result is the pair (landed, attempted)
parse_x_of_y(text) ==
    IF text = None \/ text[1] = <<>> THEN <<None, None>>
    ELSE LET s == text[1]
             starts == {a \in 1..Len(s) : XofYMatchAt(s, a)}
         IN  IF starts = {} THEN <<None, None>>
             ELSE LET a == CHOOSE x \in starts : \A y \in starts : x <= y
                      b == RunEnd(s, a)
                      c == SkipSpaces(s, SkipSpaces(s, b + 1) + 2)
                  IN  <<Some(DigitsValue(SubSeq(s, a, b))),
                        Some(DigitsValue(SubSeq(s, c, RunEnd(s, c))))>>

----------------------------------------------------------------------------
(* The fight-detail page and parse_fight_stats.                             *)
(*                                                                          *)
(* A fight-detail page is [fetch, tables]; fetch = "raise" when get_soup    *)
(* raises for its URL.  A table is [thead, tbody, labels, hasRow, cells]:   *)
(* whether it has the classed thead and tbody, the lower-cased header       *)
(* labels, whether the tbody has a <tr>, and the classed <td> cells of that *)
(* first row.  A cell is [links, ps]: the fighter ids of its fighter-details*)
(* anchors and the texts of its classed <p> elements.  A header label is a  *)
(* sequence of lexemes ("sig. str." followed by "%" is <<"sig. str.", "%">>)*)
(* so that "req in lab" is membership and lab.startswith(req) is a test of  *)
(* the first lexeme.                                                        *)

required == <<"fighter", "kd", "sig. str.", "total str.", "td", "sub. att", "ctrl">>

LabelHas(lab, req) == \E i \in 1..Len(lab) : lab[i] = req

StartsWith(lab, req) == Len(lab) > 0 /\ lab[1] = req

\* A mutation: one required label in the header is enough.
HasRequired_Any(labels) ==
    \E r \in 1..Len(required) :
        \E i \in 1..Len(labels) : LabelHas(labels[i], required[r])

\* all(any(req in lab for lab in labels) for req in required)
HasRequired(labels) ==
    \A r \in 1..Len(required) :
        \E i \in 1..Len(labels) : LabelHas(labels[i], required[r])

\* the index of the first table that passes the header test, 0 if none
TotalsTable(tables) ==
    LET ok == {i \in 1..Len(tables) :
                  tables[i].thead /\ tables[i].tbody /\ HasRequired(tables[i].labels)}
    IN  IF ok = {} THEN 0 ELSE CHOOSE i \in ok : \A j \in ok : i <= j

\* the branch of the if/elif chain a header label takes
Category(lab) ==
    IF StartsWith(lab, "kd") THEN "kd"
    ELSE IF StartsWith(lab, "sig. str.") /\ ~LabelHas(lab, "%") THEN "sig"
    ELSE IF StartsWith(lab, "total str.") THEN "tot"
    ELSE IF StartsWith(lab, "td") /\ ~LabelHas(lab, "%") THEN "td"
    ELSE IF StartsWith(lab, "sub. att") THEN "sub"
    ELSE IF StartsWith(lab, "ctrl") THEN "ctrl"
    ELSE "none"

\* A mutation: a category keeps the first label that matched it.
ColIdx_First(labels, cat) ==
    LET m == {i \in 1..Len(labels) : Category(labels[i]) = cat}
    IN  IF m = {} THEN None ELSE Some(CHOOSE i \in m : \A j \in m : i <= j)

\* The value of kd_idx, sig_idx, ... after the loop over enumerate(labels):
\* every matching label assigns, so the last one stays.  Indices are those
\* of Python plus one.
ColIdx(labels, cat) ==
    LET m == {i \in 1..Len(labels) : Category(labels[i]) = cat}
    IN  IF m = {} THEN None ELSE Some(CHOOSE i \in m : \A j \in m : j <= i)

Categories == <<"kd", "sig", "tot", "td", "sub", "ctrl">>

AllMapped(labels) == \A k \in 1..Len(Categories) : ColIdx(labels, Categories[k]) # None

\* get_cell_text(col_idx, fighter_index), both counted from 1 here
get_cell_text(cells, col_idx, fighter_index) ==
    IF col_idx < 1 \/ col_idx > Len(cells) THEN None
    ELSE LET ps == cells[col_idx].ps
         IN  IF fighter_index < 1 \/ fighter_index > Len(ps) THEN None
             ELSE Some(ps[fighter_index])

\* A mutation: an id that is not in the row gets the first position.
IndexForId_Default(id_order, fighter_id) ==
    LET m == {i \in 1..Len(id_order) : id_order[i] = fighter_id}
    IN  IF m = {} THEN Some(1) ELSE Some(CHOOSE i \in m : \A j \in m : j <= i)

\* index_for_id.get(fighter_id): the position of the LAST link with that id
IndexForId(id_order, fighter_id) ==
    LET m == {i \in 1..Len(id_order) : id_order[i] = fighter_id}
    IN  IF m = {} THEN None ELSE Some(CHOOSE i \in m : \A j \in m : j <= i)

\* "int(t) if t and t.isdigit() else 0": raises when isdigit() accepts a
\* character that int() rejects
CountOf(t) ==
    IF t # None /\ IsDigit(t[1])
    THEN LET r == PyInt(t[1]) IN [raised |-> r.exc, val |-> r.val]
    ELSE [raised |-> FALSE, val |-> 0]

ROUND_SECONDS == 300

\* A mutation: the rounds before the last one are not counted.
FightDuration_NoBase(round_ended, time_ended) ==
    IF round_ended # None /\ time_ended # None /\ time_ended[1] # <<>>
    THEN parse_time_to_seconds(time_ended).val
    ELSE None

\* duration_seconds
FightDuration(round_ended, time_ended) ==
    IF round_ended # None /\ time_ended # None /\ time_ended[1] # <<>>
    THEN LET t == parse_time_to_seconds(time_ended).val
         IN  IF t # None THEN Some((round_ended[1] - 1) * ROUND_SECONDS + t[1])
             ELSE None
    ELSE None

\* is_winner
IsWinner(fighter_id, winner_id) ==
    IF winner_id # None THEN Some(fighter_id = winner_id[1]) ELSE None

\* The one element of a singleton set.  "TheOne({F(x) : x \in {e}})" is
\* F(e) with e evaluated once.
TheOne(S) == CHOOSE x \in S : TRUE

\* The dict a pass of the loop appends, from the six cell texts.
StatsDict(fight_id, fighter_id, winner_id, duration_seconds, kd, sub, sig, tot, td, ctrl_text) ==
    [fight_id |-> fight_id,
     fighter_id |-> fighter_id,
     is_winner |-> IsWinner(fighter_id, winner_id),
     knockdowns |-> kd,
     sig_strikes_landed |-> sig[1],
     sig_strikes_attempted |-> sig[2],
     total_strikes_landed |-> tot[1],
     total_strikes_attempted |-> tot[2],
     td_landed |-> td[1],
     td_attempts |-> td[2],
     sub_attempts |-> sub,
     control_time_seconds |->
         IF ctrl_text # None /\ ctrl_text[1] # <<>>
         THEN parse_time_to_seconds(ctrl_text).val
         ELSE None,
     time_fought_seconds |-> duration_seconds]

\* One pass of the loop "for fighter_id in [f1_id, f2_id]": the record the
\* pass appends (rows), none when the id is not in the totals row, or raised.
StatsRowFor(tbl, fight_id, fighter_id, winner_id, duration_seconds) ==
    TheOne({
        IF idx = None THEN [raised |-> FALSE, rows |-> <<>>]
        ELSE TheOne({
            IF kd.raised \/ sub.raised THEN [raised |-> TRUE, rows |-> <<>>]
            ELSE [raised |-> FALSE,
                  rows |-> <<StatsDict(fight_id, fighter_id, winner_id,
                                       duration_seconds, kd.val, sub.val, sig, tot, td,
                                       ctrl_text)>>] :
            kd \in {CountOf(get_cell_text(tbl.cells, ColIdx(tbl.labels, "kd")[1], idx[1]))},
            sub \in {CountOf(get_cell_text(tbl.cells, ColIdx(tbl.labels, "sub")[1], idx[1]))},
            sig \in {parse_x_of_y(get_cell_text(tbl.cells, ColIdx(tbl.labels, "sig")[1], idx[1]))},
            tot \in {parse_x_of_y(get_cell_text(tbl.cells, ColIdx(tbl.labels, "tot")[1], idx[1]))},
            td \in {parse_x_of_y(get_cell_text(tbl.cells, ColIdx(tbl.labels, "td")[1], idx[1]))},
            ctrl_text \in {get_cell_text(tbl.cells, ColIdx(tbl.labels, "ctrl")[1], idx[1])} }) :
        idx \in {IndexForId(tbl.cells[1].links, fighter_id)} })

\* the body of parse_fight_stats once the totals table tbl is found
StatsFromTable(tbl, fight_id, f1_id, f2_id, winner_id, round_ended, time_ended) ==
    IF ~tbl.hasRow THEN [raised |-> FALSE, rows |-> <<>>]
    ELSE IF ~AllMapped(tbl.labels) THEN [raised |-> FALSE, rows |-> <<>>]
    ELSE IF tbl.cells = <<>> THEN [raised |-> TRUE, rows |-> <<>>]
    ELSE TheOne({
        TheOne({
            IF r1.raised \/ r2.raised THEN [raised |-> TRUE, rows |-> <<>>]
            ELSE [raised |-> FALSE, rows |-> r1.rows \o r2.rows] :
            r1 \in {StatsRowFor(tbl, fight_id, f1_id, winner_id, d)},
            r2 \in {StatsRowFor(tbl, fight_id, f2_id, winner_id, d)} }) :
        d \in {FightDuration(round_ended, time_ended)} })

\* parse_fight_stats, on the page dp that fight_url leads to
parse_fight_stats(dp, fight_id, f1_id, f2_id, winner_id, round_ended, time_ended) ==
    IF dp.fetch = "raise" THEN [raised |-> TRUE, rows |-> <<>>]
    ELSE TheOne({
        IF k = 0 THEN [raised |-> FALSE, rows |-> <<>>]
        ELSE StatsFromTable(dp.tables[k], fight_id, f1_id, f2_id, winner_id,
                            round_ended, time_ended) :
        k \in {TotalsTable(dp.tables)} })

----------------------------------------------------------------------------
(* The site the model scrapes: the fight-detail pages, by fight id.         *)

FIGHTER == <<"fighter">>
KD == <<"kd">>
SIG == <<"sig. str.">>
SIG_PCT == <<"sig. str.", "%">>
TOTAL == <<"total str.">>
TD == <<"td">>
TD_PCT == <<"td", "%">>
SUB == <<"sub. att">>
REV == <<"rev.">>
CTRL == <<"ctrl">>

\* the header of the totals table as the site serves it
SiteLabels == <<FIGHTER, KD, SIG, SIG_PCT, TOTAL, TD, TD_PCT, SUB, REV, CTRL>>

X_1 == <<"1">>
X_0 == <<"0">>
X_sup2 == <<Sup2>>
X_23of57 == <<"2", "3", " ", "o", "f", " ", "5", "7">>
X_4of9 == <<"4", " ", "o", "f", " ", "9">>
X_pct == <<"4", "0", "%">>
X_210 == <<"2", ":", "1", "0">>
X_500 == <<"5", ":", "0", "0">>
X_dashes == <<"-", "-">>
X_empty == <<>>
X_x == <<"x">>

StatCell(p1, p2) == [links |-> <<>>, ps |-> <<p1, p2>>]

\* the cells of a totals row whose fighter cell links ids, in the site's
\* column order, with kd2 the knockdown text of the second fighter
TotalsCells(ids, kd2) ==
    << [links |-> ids, ps |-> <<X_x, X_x>>],
       StatCell(X_1, kd2),
       StatCell(X_23of57, X_4of9),
       StatCell(X_pct, X_pct),
       StatCell(X_23of57, X_4of9),
       StatCell(X_4of9, X_x),
       StatCell(X_pct, X_dashes),
       StatCell(X_0, X_1),
       StatCell(X_0, X_0),
       StatCell(X_210, X_dashes) >>

Table(labels, cells) ==
    [thead |-> TRUE, tbody |-> TRUE, labels |-> labels, hasRow |-> TRUE, cells |-> cells]

\* a table without the classed thead (the per-round tables' markup differs)
PlainTable == [thead |-> FALSE, tbody |-> TRUE, labels |-> <<>>, hasRow |-> TRUE,
               cells |-> <<>>]

\* the header without every label that contains req
LabelsWithout(req) == SelectSeq(SiteLabels, LAMBDA lab : ~LabelHas(lab, req))

DetailOK(ids) ==
    [fetch |-> "ok", tables |-> <<PlainTable, Table(SiteLabels, TotalsCells(ids, X_0))>>]

\* a page on which no header label contains req
DetailLacking(req) ==
    [fetch |-> "ok",
     tables |-> <<PlainTable, Table(LabelsWithout(req), TotalsCells(<<"A", "B">>, X_0))>>]

DetailRaise == [fetch |-> "raise", tables |-> <<>>]

\* a page whose knockdown text for the second fighter makes int() raise
DetailBadKd ==
    [fetch |-> "ok", tables |-> <<Table(SiteLabels, TotalsCells(<<"A", "B">>, X_sup2))>>]

\* the fight ids of the pages that lack the k-th required label
LackIds == <<"M1", "M2", "M3", "M4", "M5", "M6", "M7">>

FightPage(fight_id) ==
    IF \E k \in 1..Len(LackIds) : LackIds[k] = fight_id
    THEN DetailLacking(required[CHOOSE k \in 1..Len(LackIds) : LackIds[k] = fight_id])
    ELSE CASE fight_id = "F1" -> DetailOK(<<"B", "A">>)
           [] fight_id = "F3" -> DetailRaise
           [] fight_id = "F4" -> DetailBadKd

----------------------------------------------------------------------------
(* The event page and parse_event.                                          *)
(*                                                                          *)
(* An event page is [fetch, title, date, table, tbody, rows]: title is the  *)
(* optional text of the title span, date the optional text after "Date:",   *)
(* table and tbody whether the fight table and its body exist.  A row is    *)
(* [cols, fight, flinks]: the texts of its <td> cells, the optional fight   *)
(* id of its first fight-details anchor, and its fighter-details anchors    *)
(* as [id, name].                                                           *)

X_win == <<"w", "i", "n">>
X_WIN == <<"W", "I", "N">>
X_draw == <<"d", "r", "a", "w">>
X_next == <<"n", "e", "x", "t">>
X_3 == <<"3">>
X_ko == <<"K", "O", " ", "P", "u", "n", "c", "h">>
X_dec == <<"U", "-", "D", "E", "C">>
X_lw == <<"L", "W">>

\* datetime.strptime(date_str, "%B %d, %Y").date()
StrpDate(date_str) ==
    IF date_str = "April 13, 2024" THEN [exc |-> FALSE, val |-> "2024-04-13"]
    ELSE [exc |-> TRUE, val |-> ""]

\* A mutation: the date is never parsed, so every parse falls back on today.
ParsedDate_Never(p) == None

\* event_date before the fallback
ParsedDate(p) ==
    IF p.date = None THEN None
    ELSE LET d == StrpDate(p.date[1]) IN IF d.exc THEN None ELSE Some(d.val)

EventName(p) == IF p.title = None THEN "Unknown Event" ELSE p.title[1]

\* cols[-k] if len(cols) >= k else None
ColFromEnd(cols, k) == IF Len(cols) >= k THEN Some(cols[Len(cols) - k + 1]) ELSE None

Accepted(r) == r.cols # <<>> /\ r.fight # None /\ Len(r.flinks) = 2

\* round_text
RoundText(r) == ColFromEnd(r.cols, 2)

\* "int(round_text) if round_text and round_text.isdigit() else None"
RoundEnded(r) ==
    LET t == RoundText(r)
    IN  IF t # None /\ IsDigit(t[1])
        THEN LET v == PyInt(t[1]) IN [raised |-> v.exc, val |-> Some(v.val)]
        ELSE [raised |-> FALSE, val |-> None]

\* A mutation: the winner is taken to be the second-listed fighter.
WinnerId_Second(r) ==
    IF Contains(X_win, Lower(r.cols[1])) THEN Some(r.flinks[2].id) ELSE None

\* winner_id
WinnerId(r) ==
    IF Contains(X_win, Lower(r.cols[1])) THEN Some(r.flinks[1].id) ELSE None

Method(r) ==
    LET m == ColFromEnd(r.cols, 3)
    IN  IF m # None /\ m[1] # <<>> THEN Some(FirstToken(m[1])) ELSE None

\* the dict the row appended to fights_rows
FightRecord(r, name, date) ==
    [fight_id |-> r.fight[1],
     event_name |-> name,
     event_date |-> date,
     weight_class |-> ColFromEnd(r.cols, 4),
     fighter1_id |-> r.flinks[1].id,
     fighter2_id |-> r.flinks[2].id,
     winner_id |-> WinnerId(r),
     method |-> Method(r),
     round_ended |-> RoundEnded(r).val,
     time_ended |-> ColFromEnd(r.cols, 1),
     fighter1_closing_odds |-> None,
     fighter2_closing_odds |-> None]

\* A mutation: a fighter id already in the dict keeps its first name.
Upsert_KeepFirst(d, fighter_id, name) ==
    IF \E i \in 1..Len(d) : d[i].fighter_id = fighter_id THEN d
    ELSE Append(d, [fighter_id |-> fighter_id, name |-> name])

\* fighters_dict[fighter_id] = {...}: a dict keeps a key's first position
Upsert(d, fighter_id, name) ==
    IF \E i \in 1..Len(d) : d[i].fighter_id = fighter_id
    THEN [i \in 1..Len(d) |->
             IF d[i].fighter_id = fighter_id
             THEN [fighter_id |-> fighter_id, name |-> name] ELSE d[i]]
    ELSE Append(d, [fighter_id |-> fighter_id, name |-> name])

\* the call of parse_fight_stats the row makes
StatsArgs(r) ==
    [dp |-> FightPage(r.fight[1]),
     fight_id |-> r.fight[1],
     f1_id |-> r.flinks[1].id,
     f2_id |-> r.flinks[2].id,
     winner_id |-> WinnerId(r),
     round_ended |-> RoundEnded(r).val,
     time_ended |-> ColFromEnd(r.cols, 1)]

Apply_parse_fight_stats(a) ==
    parse_fight_stats(a.dp, a.fight_id, a.f1_id, a.f2_id, a.winner_id,
                      a.round_ended, a.time_ended)

NoCall == [fn |-> "none"]
NoRet == [raised |-> FALSE, rows |-> <<>>]
NoFirst == [fighters |-> <<>>, fights |-> <<>>, stats |-> <<>>]

Todays == {"2026-11-04", "2026-11-05"}

\* get_soup(event_url) raises: parse_event raises before it has any result
EventFetchFails ==
    /\ pc = "start"
    /\ page.fetch = "raise"
    /\ pc' = "raised"
    /\ UNCHANGED <<page, rowIdx, event_name, event_date, fighters_dict,
                   fights_rows, stats_rows, run, first, call, ret>>
    /\ UNCHANGED etl_vars

\* the event name and date, with today's date when no date was parsed
Header ==
    /\ pc = "start"
    /\ page.fetch = "ok"
    /\ event_name' = EventName(page)
    /\ \E t \in Todays :
           event_date' = IF ParsedDate(page) = None THEN t ELSE ParsedDate(page)[1]

\* A mutation: the missing table or tbody is used as if it were there.
NoFightTable_Raises ==
    /\ Header
    /\ ~(page.table /\ page.tbody)
    /\ pc' = "raised"
    /\ UNCHANGED <<page, rowIdx, fighters_dict, fights_rows, stats_rows,
                   run, first, call, ret>>
    /\ UNCHANGED etl_vars

\* no fight table, or no tbody in it: three empty DataFrames are returned
NoFightTable ==
    /\ Header
    /\ ~(page.table /\ page.tbody)
    /\ pc' = "done"
    /\ UNCHANGED <<page, rowIdx, fighters_dict, fights_rows, stats_rows,
                   run, first, call, ret>>
    /\ UNCHANGED etl_vars

BeginRows ==
    /\ Header
    /\ page.table /\ page.tbody
    /\ pc' = "rows"
    /\ UNCHANGED <<page, rowIdx, fighters_dict, fights_rows, stats_rows,
                   run, first, call, ret>>
    /\ UNCHANGED etl_vars

\* A mutation: the fighters of a skipped row are kept all the same.
SkipRow_KeepsFighters ==
    /\ pc = "rows"
    /\ rowIdx <= Len(page.rows)
    /\ ~Accepted(page.rows[rowIdx])
    /\ rowIdx' = rowIdx + 1
    /\ fighters_dict' =
           IF page.rows[rowIdx].flinks = <<>> THEN fighters_dict
           ELSE Upsert(fighters_dict, page.rows[rowIdx].flinks[1].id,
                       page.rows[rowIdx].flinks[1].name)
    /\ UNCHANGED <<pc, page, event_name, event_date,
                   fights_rows, stats_rows, run, first, call, ret>>
    /\ UNCHANGED etl_vars

\* a <tr> without cells, without a fight link, or without two fighter links
SkipRow ==
    /\ pc = "rows"
    /\ rowIdx <= Len(page.rows)
    /\ ~Accepted(page.rows[rowIdx])
    /\ rowIdx' = rowIdx + 1
    /\ UNCHANGED <<pc, page, event_name, event_date, fighters_dict,
                   fights_rows, stats_rows, run, first, call, ret>>
    /\ UNCHANGED etl_vars

\* int(round_text) raises: nothing catches it and parse_event raises
RowRaises ==
    /\ pc = "rows"
    /\ rowIdx <= Len(page.rows)
    /\ Accepted(page.rows[rowIdx])
    /\ RoundEnded(page.rows[rowIdx]).raised
    /\ pc' = "raised"
    /\ UNCHANGED <<page, rowIdx, event_name, event_date, fighters_dict,
                   fights_rows, stats_rows, run, first, call, ret>>
    /\ UNCHANGED etl_vars

\* A mutation: no try/except around the call of parse_fight_stats.
ParseRow_NoTry ==
    /\ pc = "rows"
    /\ rowIdx <= Len(page.rows)
    /\ Accepted(page.rows[rowIdx])
    /\ ~RoundEnded(page.rows[rowIdx]).raised
    /\ \E r \in {page.rows[rowIdx]} :
       \E a \in {StatsArgs(r)} :
       \E res \in {Apply_parse_fight_stats(a)} :
           /\ fighters_dict' =
                  Upsert(Upsert(fighters_dict, r.flinks[1].id, r.flinks[1].name),
                         r.flinks[2].id, r.flinks[2].name)
           /\ fights_rows' = Append(fights_rows, FightRecord(r, event_name, event_date))
           /\ stats_rows' = IF res.raised THEN stats_rows ELSE stats_rows \o res.rows
           /\ call' = [fn |-> "parse_fight_stats", args |-> a]
           /\ ret' = res
           /\ pc' = IF res.raised THEN "raised" ELSE pc
           /\ rowIdx' = IF res.raised THEN rowIdx ELSE rowIdx + 1
    /\ UNCHANGED <<page, event_name, event_date, run, first>>
    /\ UNCHANGED etl_vars

\* one pass of the loop over the rows for an accepted row
ParseRow ==
    /\ pc = "rows"
    /\ rowIdx <= Len(page.rows)
    /\ Accepted(page.rows[rowIdx])
    /\ ~RoundEnded(page.rows[rowIdx]).raised
    /\ \E r \in {page.rows[rowIdx]} :
       \E a \in {StatsArgs(r)} :
       \E res \in {Apply_parse_fight_stats(a)} :
           /\ fighters_dict' =
                  Upsert(Upsert(fighters_dict, r.flinks[1].id, r.flinks[1].name),
                         r.flinks[2].id, r.flinks[2].name)
           /\ fights_rows' = Append(fights_rows, FightRecord(r, event_name, event_date))
           /\ stats_rows' = IF res.raised THEN stats_rows ELSE stats_rows \o res.rows
           /\ call' = [fn |-> "parse_fight_stats", args |-> a]
           /\ ret' = res
    /\ rowIdx' = rowIdx + 1
    /\ UNCHANGED <<pc, page, event_name, event_date, run, first>>
    /\ UNCHANGED etl_vars

\* the loop is over: the three DataFrames are built and returned
Finish ==
    /\ pc = "rows"
    /\ rowIdx > Len(page.rows)
    /\ pc' = "done"
    /\ UNCHANGED <<page, rowIdx, event_name, event_date, fighters_dict,
                   fights_rows, stats_rows, run, first, call, ret>>
    /\ UNCHANGED etl_vars

\* the same page is parsed a second time
Reparse ==
    /\ pc = "done"
    /\ run = 1
    /\ run' = 2
    /\ first' = [fighters |-> fighters_dict, fights |-> fights_rows, stats |-> stats_rows]
    /\ pc' = "start"
    /\ rowIdx' = 1
    /\ event_name' = ""
    /\ event_date' = ""
    /\ fighters_dict' = <<>>
    /\ fights_rows' = <<>>
    /\ stats_rows' = <<>>
    /\ call' = NoCall
    /\ ret' = NoRet
    /\ UNCHANGED page
    /\ UNCHANGED etl_vars

----------------------------------------------------------------------------
(* The event pages the model parses.                                        *)

\* The cells of a row: the site's rows have ten; parse_event reads the
\* first (W/L) and the last four (weight class, method, round, time).
Cols(wl, method, round, time) == <<wl, X_lw, method, round, time>>

O_win == Cols(X_win, X_ko, X_3, X_210)
O_draw == Cols(X_draw, X_dec, X_3, X_500)
O_WIN == Cols(X_WIN, X_ko, X_1, X_dashes)
O_next == Cols(X_next, X_empty, X_empty, X_empty)
O_garbled == Cols(X_win, X_ko, X_x, X_x)
O_badround == Cols(X_win, X_ko, X_sup2, X_210)
O_short == <<X_win>>

Link(id, name) == [id |-> id, name |-> name]

L_AB == <<Link("A", "Al"), Link("B", "Bo")>>
L_BA == <<Link("B", "Bo"), Link("A", "Alan")>>
L_AA == <<Link("A", "Al"), Link("A", "Alan")>>
L_AC == <<Link("A", "Al"), Link("C", "Cy")>>
L_A == <<Link("A", "Ann")>>
L_ABC == <<Link("A", "Ann"), Link("B", "Bea"), Link("C", "Cy")>>

Row(cols, fight, flinks) == [cols |-> cols, fight |-> fight, flinks |-> flinks]

RowPool ==
    {Row(o, Some("F1"), l) : o \in {O_win, O_draw}, l \in {L_AB, L_BA, L_AA}}
    \cup {Row(O_win, Some(LackIds[k]), L_AB) : k \in 1..Len(LackIds)}
    \cup {Row(O_draw, Some("M7"), L_AB)}
    \cup {Row(O_win, Some("F3"), L_AB), Row(O_win, Some("F4"), L_AB)}
    \cup {Row(<<>>, Some("F1"), L_AB), Row(O_win, None, L_AB), Row(O_win, Some("F1"), L_A)}
    \cup {Row(O_WIN, Some("F1"), L_AC), Row(O_next, Some("M7"), L_BA),
          Row(O_garbled, Some("F1"), L_AB), Row(O_short, Some("F1"), L_BA),
          Row(O_badround, Some("F1"), L_AB)}
    \cup {Row(O_win, Some("F1"), L_ABC), Row(O_draw, Some("F1"), <<>>)}

MaxRows == 2

RowSeqs(n) == UNION {[1..k -> RowPool] : k \in 0..n}

Headers ==
    {[title |-> Some("UFC 300"), date |-> Some("April 13, 2024")],
     [title |-> None, date |-> Some("TBD")],
     [title |-> Some("UFC 300"), date |-> None]}

EventPage(fetch, h, table, tbody, rows) ==
    [fetch |-> fetch, title |-> h.title, date |-> h.date,
     table |-> table, tbody |-> tbody, rows |-> rows]

NoPage == EventPage("raise", [title |-> None, date |-> None], FALSE, FALSE, <<>>)

GoodHeader == [title |-> Some("UFC 300"), date |-> Some("April 13, 2024")]

\* Every header with the shorter tables, the dated header with the longest too.
EventPages ==
    {NoPage}
    \cup {EventPage("ok", h, t, FALSE, <<>>) : h \in Headers, t \in BOOLEAN}
    \cup {EventPage("ok", h, TRUE, TRUE, rs) : h \in Headers, rs \in RowSeqs(MaxRows - 1)}
    \cup {EventPage("ok", GoodHeader, TRUE, TRUE, rs) : rs \in RowSeqs(MaxRows)}

\* parse_event is called on an event page
Init ==
    /\ pc = "start"
    /\ page \in EventPages
    /\ rowIdx = 1
    /\ event_name = ""
    /\ event_date = ""
    /\ fighters_dict = <<>>
    /\ fights_rows = <<>>
    /\ stats_rows = <<>>
    /\ run = 1
    /\ first = NoFirst
    /\ call = NoCall
    /\ ret = NoRet
    /\ EtlIdle

Next ==
    \/ EventFetchFails
    \/ NoFightTable
    \/ BeginRows
    \/ SkipRow
    \/ RowRaises
    \/ ParseRow
    \/ Finish

Spec == Init /\ [][Next]_vars

----------------------------------------------------------------------------
(* parse_event twice on the same static page.                               *)

TwicePool ==
    {Row(O_win, Some("F1"), L_AB), Row(O_draw, Some("F1"), L_BA),
     Row(O_win, Some("M7"), L_AB), Row(O_win, Some("F3"), L_AA),
     Row(O_win, Some("F4"), L_AB), Row(O_win, Some("F1"), L_A),
     Row(O_garbled, Some("F1"), L_AC)}

TwicePages ==
    {EventPage("ok", h, t, FALSE, <<>>) : h \in Headers, t \in BOOLEAN}
    \cup {EventPage("ok", h, TRUE, TRUE, rs) :
             h \in Headers, rs \in UNION {[1..k -> TwicePool] : k \in 0..MaxRows}}

InitTwice ==
    /\ pc = "start"
    /\ page \in TwicePages
    /\ rowIdx = 1
    /\ event_name = ""
    /\ event_date = ""
    /\ fighters_dict = <<>>
    /\ fights_rows = <<>>
    /\ stats_rows = <<>>
    /\ run = 1
    /\ first = NoFirst
    /\ call = NoCall
    /\ ret = NoRet
    /\ EtlIdle

NextTwice ==
    \/ NoFightTable
    \/ BeginRows
    \/ SkipRow
    \/ ParseRow
    \/ Finish
    \/ Reparse

SpecTwice == InitTwice /\ [][NextTwice]_vars

----------------------------------------------------------------------------
(* The pure functions, each called once on an input of a bounded set.       *)

ClockChars == {"0", "3", "4", "5", ":", "-", " ", "x"}

MaxClockLen == 4

ClockInputs ==
    {None} \cup {Some(s) : s \in UNION {[1..k -> ClockChars] : k \in 0..MaxClockLen}}

InitPure(calls) ==
    /\ pc = "idle"
    /\ page = NoPage
    /\ rowIdx = 1
    /\ event_name = ""
    /\ event_date = ""
    /\ fighters_dict = <<>>
    /\ fights_rows = <<>>
    /\ stats_rows = <<>>
    /\ run = 1
    /\ first = NoFirst
    /\ call \in calls
    /\ ret = NoRet
    /\ EtlIdle

InitClock == InitPure({[fn |-> "parse_time_to_seconds", args |-> t] : t \in ClockInputs})

CallClock ==
    /\ pc = "idle"
    /\ call.fn = "parse_time_to_seconds"
    /\ ret' = parse_time_to_seconds(call.args)
    /\ pc' = "returned"
    /\ UNCHANGED <<page, rowIdx, event_name, event_date, fighters_dict,
                   fights_rows, stats_rows, run, first, call>>
    /\ UNCHANGED etl_vars

NextClock == CallClock

SpecClock == InitClock /\ [][NextClock]_vars

\* a totals table whose tbody has no <tr>
DetailNoRow ==
    [fetch |-> "ok",
     tables |-> <<[thead |-> TRUE, tbody |-> TRUE, labels |-> SiteLabels,
                   hasRow |-> FALSE, cells |-> <<>>]>>]

\* a totals row without classed cells
DetailNoCells == [fetch |-> "ok", tables |-> <<Table(SiteLabels, <<>>)>>]

\* a header with the knockdown and takedown columns twice
DetailTwoKd ==
    [fetch |-> "ok",
     tables |-> <<Table(<<FIGHTER, KD, SIG, SIG_PCT, TOTAL, TD, TD_PCT, SUB, KD, CTRL, TD>>,
                        TotalsCells(<<"A", "B">>, X_1) \o <<StatCell(X_x, X_23of57)>>)>>]

DetailPool ==
    {DetailOK(ids) : ids \in {<<"A", "B">>, <<"B", "A">>, <<"A">>, <<"A", "A">>,
                              <<"A", "B", "A">>, <<>>}}
    \cup {DetailLacking(required[k]) : k \in 1..Len(required)}
    \cup {DetailRaise, DetailBadKd, DetailNoRow, DetailNoCells, DetailTwoKd,
          [fetch |-> "ok", tables |-> <<>>]}

StatsCalls ==
    {[fn |-> "parse_fight_stats",
      args |-> [dp |-> dp, fight_id |-> "F1", f1_id |-> f1, f2_id |-> f2,
                winner_id |-> w, round_ended |-> r, time_ended |-> t]] :
        dp \in DetailPool, f1 \in {"A", "B", "C"}, f2 \in {"A", "B", "C"},
        w \in {None, Some("A"), Some("B")}, r \in {None, Some(1), Some(3)},
        t \in {None, Some(X_empty), Some(X_210), Some(X_dashes), Some(X_x)}}

InitStats == InitPure(StatsCalls)

CallStats ==
    /\ pc = "idle"
    /\ call.fn = "parse_fight_stats"
    /\ ret' = Apply_parse_fight_stats(call.args)
    /\ pc' = "returned"
    /\ UNCHANGED <<page, rowIdx, event_name, event_date, fighters_dict,
                   fights_rows, stats_rows, run, first, call>>
    /\ UNCHANGED etl_vars

NextStats == CallStats

SpecStats == InitStats /\ [][NextStats]_vars

\* parse_x_of_y on every text over a few characters
XofYChars == {"2", "7", " ", "o", "f", "O"}

MaxXofYLen == 5

XofYInputs ==
    {None} \cup {Some(s) : s \in UNION {[1..k -> XofYChars] : k \in 0..MaxXofYLen}}

InitXofY == InitPure({[fn |-> "parse_x_of_y", args |-> t] : t \in XofYInputs})

CallXofY ==
    /\ pc = "idle"
    /\ call.fn = "parse_x_of_y"
    /\ ret' = [raised |-> FALSE, val |-> parse_x_of_y(call.args)]
    /\ pc' = "returned"
    /\ UNCHANGED <<page, rowIdx, event_name, event_date, fighters_dict,
                   fights_rows, stats_rows, run, first, call>>
    /\ UNCHANGED etl_vars

NextXofY == CallXofY

SpecXofY == InitXofY /\ [][NextXofY]_vars

\* get_completed_event_urls on the listing pages over a few hrefs
Href(host, path) == [host |-> host, path |-> path]

HrefPool ==
    {Href(None, <<"event-details", "e1">>),
     Href(Some(UFCSTATS_HOST), <<"event-details", "e1">>),
     Href(None, <<"event-details", "e2">>),
     Href(Some("other.org"), <<"event-details", "e1">>),
     Href(None, <<"fighter-details", "f1">>)}

MaxLinks == 4

MaxLimit == 3

Listings ==
    {[fetch |-> "raise", hrefs |-> <<>>]}
    \cup {[fetch |-> "ok", hrefs |-> hs] : hs \in UNION {[1..k -> HrefPool] : k \in 0..MaxLinks}}

InitListing ==
    InitPure({[fn |-> "get_completed_event_urls", args |-> [listing |-> l, limit |-> n]] :
                 l \in Listings, n \in {None} \cup {Some(k) : k \in 0..MaxLimit}})

CallListing ==
    /\ pc = "idle"
    /\ call.fn = "get_completed_event_urls"
    /\ ret' = get_completed_event_urls(call.args.listing, call.args.limit)
    /\ pc' = "returned"
    /\ UNCHANGED <<page, rowIdx, event_name, event_date, fighters_dict,
                   fights_rows, stats_rows, run, first, call>>
    /\ UNCHANGED etl_vars

NextListing == CallListing

SpecListing == InitListing /\ [][NextListing]_vars

----------------------------------------------------------------------------
(* The loaders of etl_ufcstats.py: load_single_event and load_recent_events.*)
(* parse_event runs inside them by the actions above, on the page the site  *)
(* serves for the url.                                                      *)

parse_vars == <<pc, page, rowIdx, event_name, event_date, fighters_dict,
                fights_rows, stats_rows, run, first, call, ret>>

\* df.drop_duplicates(subset=["fighter_id"]): the first row of each id stays
RECURSIVE DropDuplicates(_)
DropDuplicates(df) ==
    IF df = <<>> THEN <<>>
    ELSE TheOne({
        IF \E i \in 1..Len(kept) : kept[i].fighter_id = df[Len(df)].fighter_id
        THEN kept ELSE Append(kept, df[Len(df)]) :
        kept \in {DropDuplicates(SubSeq(df, 1, Len(df) - 1))} })

\* _insert_event_data: the three appends of one transaction
insert_event_data(d, df_fighters, df_fights, df_stats) ==
    [fighters |-> d.fighters \o DropDuplicates(df_fighters),
     fights |-> d.fights \o df_fights,
     fighter_stats |-> d.fighter_stats \o df_stats]

\* parse_event(url) is entered, on the page p the site serves for url
CallParseEvent(p) ==
    /\ page' = p
    /\ pc' = "start"
    /\ rowIdx' = 1
    /\ event_name' = ""
    /\ event_date' = ""
    /\ fighters_dict' = <<>>
    /\ fights_rows' = <<>>
    /\ stats_rows' = <<>>
    /\ call' = NoCall
    /\ ret' = NoRet
    /\ UNCHANGED <<run, first>>

\* load_recent_events: get_completed_event_urls raises, and so does the loader
Recent_ListingFails ==
    /\ loader.fn = "load_recent_events" /\ loader.pc = "start"
    /\ get_completed_event_urls(site.listing, Some(loader.arg)).raised
    /\ loader' = [loader EXCEPT !.pc = "raised"]
    /\ UNCHANGED <<parse_vars, site, event_urls, urlIdx, seen_fighter_ids, db>>

\* event_urls = get_completed_event_urls(limit=num_events)
Recent_Listing ==
    /\ loader.fn = "load_recent_events" /\ loader.pc = "start"
    /\ ~get_completed_event_urls(site.listing, Some(loader.arg)).raised
    /\ event_urls' = get_completed_event_urls(site.listing, Some(loader.arg)).urls
    /\ loader' = [loader EXCEPT !.pc = "truncate"]
    /\ UNCHANGED <<parse_vars, site, urlIdx, seen_fighter_ids, db>>

\* TRUNCATE TABLE fighter_stats, fights, fighters; seen_fighter_ids = set()
Recent_Truncate ==
    /\ loader.fn = "load_recent_events" /\ loader.pc = "truncate"
    /\ db' = EmptyDb
    /\ seen_fighter_ids' = {}
    /\ urlIdx' = 1
    /\ loader' = [loader EXCEPT !.pc = "loop"]
    /\ UNCHANGED <<parse_vars, site, event_urls>>

\* for url in event_urls: parse_event(url) is called
Recent_NextEvent ==
    /\ loader.fn = "load_recent_events" /\ loader.pc = "loop"
    /\ urlIdx <= Len(event_urls)
    /\ CallParseEvent(site.events[event_urls[urlIdx]])
    /\ loader' = [loader EXCEPT !.pc = "parse"]
    /\ UNCHANGED <<site, event_urls, urlIdx, seen_fighter_ids, db>>

\* parse_event raised: nothing in the loop catches it
Recent_EventRaises ==
    /\ loader.fn = "load_recent_events" /\ loader.pc = "parse"
    /\ pc = "raised"
    /\ loader' = [loader EXCEPT !.pc = "raised"]
    /\ UNCHANGED <<parse_vars, site, event_urls, urlIdx, seen_fighter_ids, db>>

\* "if df_fights.empty or df_stats.empty: continue"
Recent_Skip ==
    /\ loader.fn = "load_recent_events" /\ loader.pc = "parse"
    /\ pc = "done"
    /\ fights_rows = <<>> \/ stats_rows = <<>>
    /\ pc' = "idle"
    /\ urlIdx' = urlIdx + 1
    /\ loader' = [loader EXCEPT !.pc = "loop"]
    /\ UNCHANGED <<page, rowIdx, event_name, event_date, fighters_dict, fights_rows,
                   stats_rows, run, first, call, ret, site, event_urls,
                   seen_fighter_ids, db>>

\* A mutation: every fighter of the event is inserted, seen before or not.
Recent_Insert_NoMask ==
    /\ loader.fn = "load_recent_events" /\ loader.pc = "parse"
    /\ pc = "done"
    /\ fights_rows # <<>> /\ stats_rows # <<>>
    /\ seen_fighter_ids' =
           seen_fighter_ids \cup {fighters_dict[i].fighter_id : i \in 1..Len(fighters_dict)}
    /\ db' = insert_event_data(db, fighters_dict, fights_rows, stats_rows)
    /\ pc' = "idle"
    /\ urlIdx' = urlIdx + 1
    /\ loader' = [loader EXCEPT !.pc = "loop"]
    /\ UNCHANGED <<page, rowIdx, event_name, event_date, fighters_dict, fights_rows,
                   stats_rows, run, first, call, ret, site, event_urls>>

\* the fighters not seen in this run are masked in, remembered and inserted
\* with the event's fights and stats
Recent_Insert ==
    /\ loader.fn = "load_recent_events" /\ loader.pc = "parse"
    /\ pc = "done"
    /\ fights_rows # <<>> /\ stats_rows # <<>>
    /\ \E new_fighters \in
           {SelectSeq(fighters_dict, LAMBDA f : f.fighter_id \notin seen_fighter_ids)} :
           /\ seen_fighter_ids' =
                  seen_fighter_ids
                      \cup {new_fighters[i].fighter_id : i \in 1..Len(new_fighters)}
           /\ db' = insert_event_data(db, new_fighters, fights_rows, stats_rows)
    /\ pc' = "idle"
    /\ urlIdx' = urlIdx + 1
    /\ loader' = [loader EXCEPT !.pc = "loop"]
    /\ UNCHANGED <<page, rowIdx, event_name, event_date, fighters_dict, fights_rows,
                   stats_rows, run, first, call, ret, site, event_urls>>

\* the loop over event_urls is over
Recent_Done ==
    /\ loader.fn = "load_recent_events" /\ loader.pc = "loop"
    /\ urlIdx > Len(event_urls)
    /\ loader' = [loader EXCEPT !.pc = "done"]
    /\ UNCHANGED <<parse_vars, site, event_urls, urlIdx, seen_fighter_ids, db>>

\* load_single_event: parse_event(event_url) is called
Single_Parse ==
    /\ loader.fn = "load_single_event" /\ loader.pc = "start"
    /\ CallParseEvent(site.events[loader.arg])
    /\ loader' = [loader EXCEPT !.pc = "parse"]
    /\ UNCHANGED <<site, event_urls, urlIdx, seen_fighter_ids, db>>

\* A mutation: the tables are truncated although parse_event raised.
Single_Raises_Truncated ==
    /\ loader.fn = "load_single_event" /\ loader.pc = "parse"
    /\ pc = "raised"
    /\ db' = EmptyDb
    /\ loader' = [loader EXCEPT !.pc = "raised"]
    /\ UNCHANGED <<parse_vars, site, event_urls, urlIdx, seen_fighter_ids>>

Single_Raises ==
    /\ loader.fn = "load_single_event" /\ loader.pc = "parse"
    /\ pc = "raised"
    /\ loader' = [loader EXCEPT !.pc = "raised"]
    /\ UNCHANGED <<parse_vars, site, event_urls, urlIdx, seen_fighter_ids, db>>

Single_Truncate ==
    /\ loader.fn = "load_single_event" /\ loader.pc = "parse"
    /\ pc = "done"
    /\ db' = EmptyDb
    /\ loader' = [loader EXCEPT !.pc = "insert"]
    /\ UNCHANGED <<parse_vars, site, event_urls, urlIdx, seen_fighter_ids>>

\* _insert_event_data(engine, df_fighters, df_fights, df_stats)
Single_Insert ==
    /\ loader.fn = "load_single_event" /\ loader.pc = "insert"
    /\ db' = insert_event_data(db, fighters_dict, fights_rows, stats_rows)
    /\ loader' = [loader EXCEPT !.pc = "done"]
    /\ UNCHANGED <<parse_vars, site, event_urls, urlIdx, seen_fighter_ids>>

\* The site the loaders run against.
Url(e) == Href(Some(UFCSTATS_HOST), <<"event-details", e>>)

EtlUrls == {Url("e1"), Url("e2")}

EtlHrefs == {Href(None, <<"event-details", "e1">>), Url("e1"), Href(None, <<"event-details", "e2">>)}

MaxEtlLinks == 3

MaxEvents == 2

EtlListings ==
    {[fetch |-> "raise", hrefs |-> <<>>]}
    \cup {[fetch |-> "ok", hrefs |-> hs] :
             hs \in UNION {[1..k -> EtlHrefs] : k \in 0..MaxEtlLinks}}

\* event pages: unreachable, without a fight table, with one fight, with two
\* fights and a fighter of the first page, with a skipped row and a fight
\* whose stats page fails (no stats: the event is skipped), and with a round
\* text that makes parse_event raise
EtlPages ==
    {NoPage,
     EventPage("ok", GoodHeader, FALSE, FALSE, <<>>),
     EventPage("ok", GoodHeader, TRUE, TRUE, <<Row(O_win, Some("F1"), L_AB)>>),
     EventPage("ok", GoodHeader, TRUE, TRUE,
               <<Row(O_WIN, Some("F1"), L_AC), Row(O_draw, Some("F4"), L_BA)>>),
     EventPage("ok", GoodHeader, TRUE, TRUE,
               <<Row(O_win, Some("F1"), L_A), Row(O_win, Some("F3"), L_AB)>>),
     EventPage("ok", GoodHeader, TRUE, TRUE, <<Row(O_badround, Some("F1"), L_AB)>>)}

Sites == {[listing |-> l, events |-> ev] : l \in EtlListings, ev \in [EtlUrls -> EtlPages]}

Loaders ==
    {[fn |-> "load_recent_events", pc |-> "start", arg |-> n] : n \in 0..MaxEvents}
    \cup {[fn |-> "load_single_event", pc |-> "start", arg |-> u] : u \in EtlUrls}

\* what the tables hold before the loader runs
OldDb ==
    [fighters |-> <<[fighter_id |-> "Z", name |-> "Zed"]>>,
     fights |-> <<[fight_id |-> "old"]>>,
     fighter_stats |-> <<[fight_id |-> "old", fighter_id |-> "Z"]>>]

InitEtl ==
    /\ pc = "idle"
    /\ page = NoPage
    /\ rowIdx = 1
    /\ event_name = ""
    /\ event_date = ""
    /\ fighters_dict = <<>>
    /\ fights_rows = <<>>
    /\ stats_rows = <<>>
    /\ run = 1
    /\ first = NoFirst
    /\ call = NoCall
    /\ ret = NoRet
    /\ site \in Sites
    /\ loader \in Loaders
    /\ event_urls = <<>>
    /\ urlIdx = 1
    /\ seen_fighter_ids = {}
    /\ db = OldDb

NextEtl ==
    \/ Recent_ListingFails
    \/ Recent_Listing
    \/ Recent_Truncate
    \/ Recent_NextEvent
    \/ Recent_EventRaises
    \/ Recent_Skip
    \/ Recent_Insert
    \/ Recent_Done
    \/ Single_Parse
    \/ Single_Raises
    \/ Single_Truncate
    \/ Single_Insert
    \/ EventFetchFails
    \/ NoFightTable
    \/ BeginRows
    \/ SkipRow
    \/ RowRaises
    \/ ParseRow
    \/ Finish

SpecEtl == InitEtl /\ [][NextEtl]_vars

----------------------------------------------------------------------------
(* What the claims compare the model with.                                  *)

\* the accepted rows among those the loop has passed, in page order
AcceptedSoFar == SelectSeq(SubSeq(page.rows, 1, rowIdx - 1), Accepted)

Parsing == pc \in {"rows", "done"}

\* a text without its leading and trailing blanks
Trimmed(s) ==
    LET inked == {i \in 1..Len(s) : s[i] # " "}
    IN  IF inked = {} THEN <<>>
        ELSE SubSeq(s, CHOOSE i \in inked : \A j \in inked : i <= j,
                       CHOOSE i \in inked : \A j \in inked : j <= i)

RECURSIVE Pow10(_)
Pow10(n) == IF n = 0 THEN 1 ELSE 10 * Pow10(n - 1)

\* the digits of an integer text: those after its sign
DigitsFrom(q) == IF q # <<>> /\ q[1] \in {"+", "-"} THEN 2 ELSE 1

\* an optionally signed decimal integer, blanks around it allowed
IsIntegerText(p) ==
    LET q == Trimmed(p)
    IN  /\ Len(q) >= DigitsFrom(q)
        /\ \A i \in DigitsFrom(q)..Len(q) :
               q[i] \in {"0", "1", "2", "3", "4", "5", "6", "7", "8", "9"}

RECURSIVE PlaceSum(_, _)
PlaceSum(q, i) ==
    IF i > Len(q) THEN 0
    ELSE DigitVal(q[i]) * Pow10(Len(q) - i) + PlaceSum(q, i + 1)

IntegerOf(p) ==
    LET q == Trimmed(p)
        n == PlaceSum(q, DigitsFrom(q))
    IN  IF q[1] = "-" THEN 0 - n ELSE n

\* what the clock parser is to return for an optional text
ClockExpected(text) ==
    IF text = None \/ text[1] = <<>> THEN None
    ELSE LET t == Trimmed(text[1])
             colons == {i \in 1..Len(t) : t[i] = ":"}
         IN  IF t = <<"-", "-">> \/ t = <<"0", ":", "0", "0">> THEN Some(0)
             ELSE IF Cardinality(colons) # 1 THEN None
             ELSE LET k == CHOOSE i \in colons : TRUE
                      m == SubSeq(t, 1, k - 1)
                      sec == SubSeq(t, k + 1, Len(t))
                  IN  IF IsIntegerText(m) /\ IsIntegerText(sec)
                      THEN Some(IntegerOf(m) * 60 + IntegerOf(sec))
                      ELSE None

\* the duration of a fight from the round it ended in and the clock text
DurationExpected(round_ended, time_ended) ==
    IF round_ended = None \/ ClockExpected(time_ended) = None THEN None
    ELSE Some((round_ended[1] - 1) * 300 + ClockExpected(time_ended)[1])

----------------------------------------------------------------------------
(* C1 *)

\* the call found the totals table, mapped every column, and both
\* participants are among the fighter links of the totals row
C1_Resolvable(a) ==
    /\ a.dp.fetch = "ok"
    /\ TotalsTable(a.dp.tables) # 0
    /\ LET tbl == a.dp.tables[TotalsTable(a.dp.tables)]
       IN  /\ tbl.hasRow
           /\ AllMapped(tbl.labels)
           /\ tbl.cells # <<>>
           /\ \A id \in {a.f1_id, a.f2_id} :
                  \E i \in 1..Len(tbl.cells[1].links) : tbl.cells[1].links[i] = id

\* C1: a call of parse_fight_stats that finds the totals table, maps all
\* columns and finds both participants among the totals row's fighter links
\* returns exactly two records with the call's fight_id, the first for f1_id
\* and the second for f2_id, both with the one duration computed from
\* round_ended and time_ended.
C1_TwoRecordsOneDuration ==
    (pc = "returned" /\ call.fn = "parse_fight_stats" /\ C1_Resolvable(call.args))
    => /\ ~ret.raised
       /\ Len(ret.rows) = 2
       /\ ret.rows[1].fighter_id = call.args.f1_id
       /\ ret.rows[2].fighter_id = call.args.f2_id
       /\ \A i \in 1..2 :
              /\ ret.rows[i].fight_id = call.args.fight_id
              /\ ret.rows[i].time_fought_seconds =
                     DurationExpected(call.args.round_ended, call.args.time_ended)

\* What remains of C1 for the calls that return: the same, of every such
\* call that does not raise.
C1_WhenReturned ==
    (pc = "returned" /\ call.fn = "parse_fight_stats" /\ C1_Resolvable(call.args)
        /\ ~ret.raised)
    => /\ Len(ret.rows) = 2
       /\ ret.rows[1].fighter_id = call.args.f1_id
       /\ ret.rows[2].fighter_id = call.args.f2_id
       /\ \A i \in 1..2 :
              /\ ret.rows[i].fight_id = call.args.fight_id
              /\ ret.rows[i].time_fought_seconds =
                     DurationExpected(call.args.round_ended, call.args.time_ended)

----------------------------------------------------------------------------
(* C2 *)

\* no header label of the page contains one of the required labels
C2_LacksLabel(dp) ==
    /\ dp.fetch = "ok"
    /\ \E r \in 1..Len(required) :
           \A t \in 1..Len(dp.tables) :
               \A i \in 1..Len(dp.tables[t].labels) :
                   ~LabelHas(dp.tables[t].labels[i], required[r])

\* C2: for a fight row whose fight-detail page lacks a required header
\* label, parse_fight_stats returns no record and does not raise, the stats
\* collection holds no record of that fight_id, and the fights collection
\* holds the row's FightRecord.
C2_MissingLabelNoStats ==
    /\ (Parsing /\ call.fn = "parse_fight_stats" /\ C2_LacksLabel(call.args.dp))
       => (~ret.raised /\ ret.rows = <<>>)
    /\ Parsing =>
           \A j \in 1..Len(AcceptedSoFar) :
               C2_LacksLabel(FightPage(AcceptedSoFar[j].fight[1]))
               => /\ j <= Len(fights_rows)
                  /\ fights_rows[j].fight_id = AcceptedSoFar[j].fight[1]
                  /\ \A s \in 1..Len(stats_rows) :
                         stats_rows[s].fight_id # AcceptedSoFar[j].fight[1]

C2_Witness ==
    /\ pc = "done"
    /\ Len(fights_rows) = 2
    /\ fights_rows[1].fight_id = "M4"
    /\ C2_LacksLabel(FightPage("M4"))
    /\ fights_rows[2].fight_id = "F1"
    /\ Len(stats_rows) = 2
    /\ stats_rows[1].fight_id = "F1"

----------------------------------------------------------------------------
(* C3 *)

\* the row the loop is at makes a call of parse_fight_stats that raises
C3_StatsRaise ==
    /\ pc = "rows"
    /\ rowIdx <= Len(page.rows)
    /\ Accepted(page.rows[rowIdx])
    /\ ~RoundEnded(page.rows[rowIdx]).raised
    /\ Apply_parse_fight_stats(StatsArgs(page.rows[rowIdx])).raised

\* C3: when fetching or parsing the fight-detail page of a row raises,
\* parse_event catches it: the row adds its FightRecord and no stat record,
\* the loop goes on to the next row, and parse_event itself does not raise
\* (it raises only when the event page cannot be fetched or int() rejects
\* a round text).
C3_FetchFailureContained ==
    [][ /\ C3_StatsRaise =>
            /\ pc' = "rows"
            /\ rowIdx' = rowIdx + 1
            /\ Len(fights_rows') = Len(fights_rows) + 1
            /\ fights_rows'[Len(fights_rows')].fight_id = page.rows[rowIdx].fight[1]
            /\ SubSeq(fights_rows', 1, Len(fights_rows)) = fights_rows
            /\ stats_rows' = stats_rows
        /\ (pc' = "raised" /\ pc # "raised") =>
            \/ page.fetch = "raise"
            \/ RoundEnded(page.rows[rowIdx]).raised ]_vars

C3_Witness ==
    /\ pc = "done"
    /\ Len(fights_rows) = 2
    /\ fights_rows[1].fight_id = "F3"
    /\ FightPage("F3").fetch = "raise"
    /\ fights_rows[2].fight_id = "F1"
    /\ Len(stats_rows) = 2
    /\ stats_rows[1].fight_id = "F1"
    /\ stats_rows[2].fight_id = "F1"

----------------------------------------------------------------------------
(* C4 *)

\* the fighter links of the accepted rows passed so far, in page order
LinksSoFar ==
    [k \in 1..(2 * Len(AcceptedSoFar)) |->
        AcceptedSoFar[(k + 1) \div 2].flinks[((k - 1) % 2) + 1]]

\* C4: the fighters collection holds exactly one record for each fighter_id
\* seen in an accepted row, and the record's name is the name of the last
\* link with that fighter_id.
C4_OneRecordLastName ==
    Parsing =>
        /\ \A i, j \in 1..Len(fighters_dict) :
               fighters_dict[i].fighter_id = fighters_dict[j].fighter_id => i = j
        /\ {fighters_dict[i].fighter_id : i \in 1..Len(fighters_dict)}
               = {LinksSoFar[k].id : k \in 1..Len(LinksSoFar)}
        /\ \A i \in 1..Len(fighters_dict) :
               \E k \in 1..Len(LinksSoFar) :
                   /\ LinksSoFar[k].id = fighters_dict[i].fighter_id
                   /\ LinksSoFar[k].name = fighters_dict[i].name
                   /\ \A m \in (k + 1)..Len(LinksSoFar) :
                          LinksSoFar[m].id # fighters_dict[i].fighter_id

C4_Witness ==
    /\ pc = "done"
    /\ Len(AcceptedSoFar) = 2
    /\ AcceptedSoFar[1].flinks = L_AB
    /\ AcceptedSoFar[2].flinks = L_BA
    /\ fighters_dict = <<[fighter_id |-> "A", name |-> "Alan"],
                         [fighter_id |-> "B", name |-> "Bo"]>>

----------------------------------------------------------------------------
(* C5 *)

\* the text holds "win" in some mix of cases
HasWinMarker(text) ==
    \E i \in 1..(Len(text) - 2) :
        /\ text[i] \in {"w", "W"}
        /\ text[i + 1] \in {"i", "I"}
        /\ text[i + 2] \in {"n", "N"}

\* C5: every FightRecord has winner_id = fighter1_id when the first cell of
\* its row holds the marker "win" in any case, and no winner_id otherwise;
\* so a winner_id is always fighter1_id or fighter2_id of its record.
C5_WinnerIsFirstListed ==
    Parsing =>
        /\ Len(fights_rows) = Len(AcceptedSoFar)
        /\ \A j \in 1..Len(fights_rows) :
               /\ fights_rows[j].winner_id =
                      IF HasWinMarker(AcceptedSoFar[j].cols[1])
                      THEN Some(fights_rows[j].fighter1_id) ELSE None
               /\ fights_rows[j].fighter1_id = AcceptedSoFar[j].flinks[1].id
               /\ fights_rows[j].winner_id # None =>
                      fights_rows[j].winner_id[1] \in
                          {fights_rows[j].fighter1_id, fights_rows[j].fighter2_id}

C5_Witness ==
    /\ pc = "done"
    /\ Len(fights_rows) = 2
    /\ AcceptedSoFar[1].cols[1] = X_WIN
    /\ fights_rows[1].winner_id = Some("A")
    /\ fights_rows[1].fighter2_id = "C"
    /\ AcceptedSoFar[2].cols[1] = X_draw
    /\ fights_rows[2].winner_id = None

----------------------------------------------------------------------------
(* C6 *)

\* C6: the stat records a fight row adds have is_winner absent exactly when
\* the row's FightRecord has no winner_id, and otherwise true for the
\* winner's record and false for the other; a fight with a winner and two
\* stat records has exactly one record with is_winner true.
C6_IsWinnerFollowsWinner ==
    (Parsing /\ call.fn = "parse_fight_stats" /\ ~ret.raised) =>
        LET fight == fights_rows[Len(fights_rows)]
        IN  /\ \A i \in 1..Len(ret.rows) :
                   /\ (ret.rows[i].is_winner = None) <=> (fight.winner_id = None)
                   /\ fight.winner_id # None =>
                          ret.rows[i].is_winner =
                              Some(ret.rows[i].fighter_id = fight.winner_id[1])
            /\ (fight.winner_id # None /\ Len(ret.rows) = 2) =>
                   Cardinality({i \in 1..2 : ret.rows[i].is_winner = Some(TRUE)}) = 1

----------------------------------------------------------------------------
(* C7 *)

\* C7: on a page whose rows all carry exactly two fighter links, every
\* FightRecord has fighter1_id # fighter2_id.
C7_DistinctFighters ==
    (\A i \in 1..Len(page.rows) : Len(page.rows[i].flinks) = 2) =>
        \A j \in 1..Len(fights_rows) :
            fights_rows[j].fighter1_id # fights_rows[j].fighter2_id

----------------------------------------------------------------------------
(* C8 *)

\* C8: no two FightRecords of the fights collection share a fight_id.
C8_UniqueFightIds ==
    \A i, j \in 1..Len(fights_rows) :
        fights_rows[i].fight_id = fights_rows[j].fight_id => i = j

----------------------------------------------------------------------------
(* C9 *)

\* the page has a "Date:" item whose text is a date in the format "%B %d, %Y"
C9_DateParses == page.date # None /\ ~StrpDate(page.date[1]).exc

\* a fights collection without its event dates
Undated(fights) ==
    [j \in 1..Len(fights) |-> [fights[j] EXCEPT !.event_date = ""]]

\* C9: the second parse of a static page returns the collections the first
\* parse returned when the event date parses; when it does not, the two
\* results differ at most in event_date, which is then the day of the parse.
C9_ReparseIdentical ==
    (run = 2 /\ pc = "done") =>
        /\ fighters_dict = first.fighters
        /\ stats_rows = first.stats
        /\ Undated(fights_rows) = Undated(first.fights)
        /\ C9_DateParses => fights_rows = first.fights

C9_Witness ==
    /\ run = 2
    /\ pc = "done"
    /\ page.date = Some("April 13, 2024")
    /\ Len(fights_rows) = 2
    /\ fights_rows[1].event_date = "2024-04-13"
    /\ Len(stats_rows) >= 2
    /\ fights_rows = first.fights

----------------------------------------------------------------------------
(* C10 *)

\* C10: parse_time_to_seconds never raises; trimmed "--" and "0:00" give 0,
\* "minutes:seconds" with integer parts gives minutes * 60 + seconds, and
\* every other text, and a missing one, gives no value.
C10_ClockParse ==
    (pc = "returned" /\ call.fn = "parse_time_to_seconds") =>
        /\ ~ret.raised
        /\ ret.val = ClockExpected(call.args)

C10_Witness ==
    /\ pc = "returned"
    /\ call = [fn |-> "parse_time_to_seconds", args |-> Some(<<"3", ":", "4", "5">>)]
    /\ ret.val = Some(225)

----------------------------------------------------------------------------
(* C11 *)

\* C11: on every record parse_fight_stats returns, time_fought_seconds is
\* (round_ended - 1) * 300 plus the seconds of the clock text when round_ended
\* is present and the clock text parses (round 3 at "2:10" is 730), and is
\* absent when round_ended is absent, when time_ended is absent or empty, and
\* when the clock text does not parse.
C11_DurationFormula ==
    (pc = "returned" /\ call.fn = "parse_fight_stats") =>
        \A i \in 1..Len(ret.rows) :
            /\ (call.args.round_ended # None /\ ClockExpected(call.args.time_ended) # None)
                   => ret.rows[i].time_fought_seconds =
                          Some((call.args.round_ended[1] - 1) * 300
                                   + ClockExpected(call.args.time_ended)[1])
            /\ (\/ call.args.round_ended = None
                \/ call.args.time_ended = None
                \/ call.args.time_ended = Some(<<>>)
                \/ ClockExpected(call.args.time_ended) = None)
                   => ret.rows[i].time_fought_seconds = None
            /\ (call.args.round_ended = Some(3) /\ call.args.time_ended = Some(X_210))
                   => ret.rows[i].time_fought_seconds = Some(730)

C11_Witness ==
    /\ pc = "returned"
    /\ call.fn = "parse_fight_stats"
    /\ call.args.round_ended = Some(3)
    /\ call.args.time_ended = Some(X_210)
    /\ Len(ret.rows) = 2
    /\ ret.rows[1].time_fought_seconds = Some(730)

----------------------------------------------------------------------------
(* C12 *)

Digits10 == {"0", "1", "2", "3", "4", "5", "6", "7", "8", "9"}

AllIn(s, i, j, chars) == \A k \in i..j : s[k] \in chars

\* s[a..b] is a number, blanks follow up to the word at o, blanks follow the
\* word up to c, where a number starts
PatternAt(s, a, b, o, c, words) ==
    /\ a <= b /\ b < o /\ o + 1 < c /\ c <= Len(s)
    /\ AllIn(s, a, b, Digits10)
    /\ AllIn(s, b + 1, o - 1, {" "})
    /\ <<s[o], s[o + 1]>> \in words
    /\ AllIn(s, o + 2, c - 1, {" "})
    /\ s[c] \in Digits10

Of_lower == {<<"o", "f">>}
Of_anycase == {<<"o", "f">>, <<"O", "f">>, <<"o", "F">>, <<"O", "F">>}

\* the pair for the leftmost "<landed> of <attempted>" of an optional text,
\* the word being one of words; (None, None) without one
XofYExpected(text, words) ==
    IF text = None THEN <<None, None>>
    ELSE LET s == text[1]
             n == Len(s)
             starts == {a \in 1..n : \E b \in a..n, o \in a..n, c \in a..n :
                                         PatternAt(s, a, b, o, c, words)}
         IN  IF starts = {} THEN <<None, None>>
             ELSE LET a == CHOOSE x \in starts : \A y \in starts : x <= y
                      m == CHOOSE t \in (a..n) \X (a..n) \X (a..n) :
                               PatternAt(s, a, t[1], t[2], t[3], words)
                      d == CHOOSE x \in m[3]..n :
                               /\ AllIn(s, m[3], x, Digits10)
                               /\ x = n \/ s[x + 1] \notin Digits10
                  IN  <<Some(PlaceSum(SubSeq(s, a, m[1]), 1)),
                        Some(PlaceSum(SubSeq(s, m[3], d), 1))>>

\* C12 as stated: parse_x_of_y returns (landed, attempted) for every text
\* that contains "<landed> of <attempted>" with the word in any case and any
\* blanks around it, and (absent, absent) for every other text and for a
\* missing one.
C12_AnyCaseOf ==
    (pc = "returned" /\ call.fn = "parse_x_of_y") =>
        ret.val = XofYExpected(call.args, Of_anycase)

\* C12 amended: the same with the word "of" in lower case only; both
\* components are present or both are absent, and "2 of 7" gives (2, 7).
C12_LowerCaseOf ==
    (pc = "returned" /\ call.fn = "parse_x_of_y") =>
        /\ ret.val = XofYExpected(call.args, Of_lower)
        /\ (ret.val[1] = None) <=> (ret.val[2] = None)
        /\ call.args = Some(<<"2", " ", "o", "f", " ", "7">>) => ret.val = <<Some(2), Some(7)>>

C12_Witness ==
    /\ pc = "returned"
    /\ call = [fn |-> "parse_x_of_y", args |-> Some(<<"2", "7", "o", "f", "2">>)]
    /\ ret.val = <<Some(27), Some(2)>>

----------------------------------------------------------------------------
(* C13 *)

\* the absolute URL an href stands for on the listing page
Absolute(h) == IF h.host = None THEN Href(Some("www.ufcstats.com"), h.path) ELSE h

\* the positions of the links of a listing whose target carries the marker
EventLinks(hs) == {i \in 1..Len(hs) : "event-details" \in {hs[i].path[k] : k \in 1..Len(hs[i].path)}}

\* where URL u occurs first among those links
FirstAt(hs, u) ==
    CHOOSE i \in EventLinks(hs) :
        Absolute(hs[i]) = u /\ \A j \in EventLinks(hs) : Absolute(hs[j]) = u => i <= j

\* how many distinct URLs occur first at or before position i
RankAt(hs, i) == Cardinality({Absolute(hs[j]) : j \in {k \in EventLinks(hs) : k <= i}})

----------------------------------------------------------------------------
(* C14 *)

\* C14: on an event page without the fight table, or whose fight table has
\* no body, parse_event does not raise and returns three empty collections,
\* and parse_fight_stats is never called (no fight-detail page is fetched).
C14_NoTableEmptyResult ==
    (page.fetch = "ok" /\ ~(page.table /\ page.tbody)) =>
        /\ pc \in {"start", "done"}
        /\ fighters_dict = <<>>
        /\ fights_rows = <<>>
        /\ stats_rows = <<>>
        /\ call.fn = "none"

C14_Witness ==
    /\ pc = "done"
    /\ page.fetch = "ok"
    /\ page.table
    /\ ~page.tbody
    /\ fights_rows = <<>>

----------------------------------------------------------------------------
(* C15 *)

\* a header cell matches a statistic category
MatchesCategory(lab, cat) ==
    /\ lab # <<>>
    /\ \/ cat = "kd" /\ lab[1] = "kd"
       \/ cat = "sig" /\ lab[1] = "sig. str." /\ \A k \in 1..Len(lab) : lab[k] # "%"
       \/ cat = "tot" /\ lab[1] = "total str."
       \/ cat = "td" /\ lab[1] = "td" /\ \A k \in 1..Len(lab) : lab[k] # "%"
       \/ cat = "sub" /\ lab[1] = "sub. att"
       \/ cat = "ctrl" /\ lab[1] = "ctrl"

MatchingCols(labels, cat) == {i \in 1..Len(labels) : MatchesCategory(labels[i], cat)}

FirstCol(labels, cat) ==
    CHOOSE i \in MatchingCols(labels, cat) : \A j \in MatchingCols(labels, cat) : i <= j

LastCol(labels, cat) ==
    CHOOSE i \in MatchingCols(labels, cat) : \A j \in MatchingCols(labels, cat) : j <= i

\* the text of fighter_id in column col of the totals row, if there is one
TextAt(tbl, col, fighter_id) ==
    LET links == tbl.cells[1].links
        pos == CHOOSE i \in 1..Len(links) :
                   links[i] = fighter_id /\ \A j \in 1..Len(links) : links[j] = fighter_id => j <= i
    IN  IF col <= Len(tbl.cells) /\ pos <= Len(tbl.cells[col].ps)
        THEN Some(tbl.cells[col].ps[pos]) ELSE None

\* a count: the number a text of decimal digits denotes, 0 for any other
CountExpected(t) ==
    IF t # None /\ t[1] # <<>> /\ AllIn(t[1], 1, Len(t[1]), Digits10)
    THEN PlaceSum(t[1], 1) ELSE 0

\* the statistics of a record
StatsOf(rec) ==
    <<rec.knockdowns, rec.sig_strikes_landed, rec.sig_strikes_attempted,
      rec.total_strikes_landed, rec.total_strikes_attempted, rec.td_landed,
      rec.td_attempts, rec.sub_attempts, rec.control_time_seconds>>

\* the statistics read for fighter_id with category cat in column col[cat]
StatsAt(tbl, col, fighter_id) ==
    <<CountExpected(TextAt(tbl, col["kd"], fighter_id)),
      XofYExpected(TextAt(tbl, col["sig"], fighter_id), Of_lower)[1],
      XofYExpected(TextAt(tbl, col["sig"], fighter_id), Of_lower)[2],
      XofYExpected(TextAt(tbl, col["tot"], fighter_id), Of_lower)[1],
      XofYExpected(TextAt(tbl, col["tot"], fighter_id), Of_lower)[2],
      XofYExpected(TextAt(tbl, col["td"], fighter_id), Of_lower)[1],
      XofYExpected(TextAt(tbl, col["td"], fighter_id), Of_lower)[2],
      CountExpected(TextAt(tbl, col["sub"], fighter_id)),
      ClockExpected(TextAt(tbl, col["ctrl"], fighter_id))>>

StatCategories == {"kd", "sig", "tot", "td", "sub", "ctrl"}

\* the totals table of the last call of parse_fight_stats that returned records
CalledTable == call.args.dp.tables[TotalsTable(call.args.dp.tables)]

ReturnedRecords ==
    pc = "returned" /\ call.fn = "parse_fight_stats" /\ ~ret.raised /\ ret.rows # <<>>

\* C15 as stated: each category is read from the FIRST header cell that
\* matches it, so with two matching cells the lower column gives the
\* statistics of every record.
C15_FirstMatchWins ==
    ReturnedRecords =>
        \A i \in 1..Len(ret.rows) :
            StatsOf(ret.rows[i]) =
                StatsAt(CalledTable,
                        [cat \in StatCategories |-> FirstCol(CalledTable.labels, cat)],
                        ret.rows[i].fighter_id)

\* C15 amended: each category is read from the LAST header cell that matches
\* it, so with two matching cells the higher column gives the statistics.
C15_LastMatchWins ==
    ReturnedRecords =>
        \A i \in 1..Len(ret.rows) :
            StatsOf(ret.rows[i]) =
                StatsAt(CalledTable,
                        [cat \in StatCategories |-> LastCol(CalledTable.labels, cat)],
                        ret.rows[i].fighter_id)

C15_Witness ==
    /\ ReturnedRecords
    /\ Cardinality(MatchingCols(CalledTable.labels, "kd")) = 2
    /\ Cardinality(MatchingCols(CalledTable.labels, "td")) = 2
    /\ Len(ret.rows) = 2
    /\ ret.rows[1].fighter_id = "B"
    /\ ret.rows[1].knockdowns = 0
    /\ ret.rows[1].td_landed = Some(23)
    /\ ret.rows[1].td_attempts = Some(57)

----------------------------------------------------------------------------
(* C16 *)

\* the next row of the loop has cells and not exactly two fighter links
C16_WrongLinkCount ==
    /\ pc = "rows"
    /\ rowIdx <= Len(page.rows)
    /\ page.rows[rowIdx].cols # <<>>
    /\ Len(page.rows[rowIdx].flinks) # 2

\* C16: the step for a row with cells whose number of fighter links is not
\* two changes none of the three collections (no FightRecord, no fighter
\* added or renamed, no stat record), calls parse_fight_stats for no page,
\* and goes on to the next row; the rows before and after it have their
\* records, one FightRecord per accepted row in page order.
C16_WrongLinkCountSkipped ==
    /\ [](Parsing =>
             /\ Len(fights_rows) = Len(AcceptedSoFar)
             /\ \A j \in 1..Len(fights_rows) :
                    fights_rows[j].fight_id = AcceptedSoFar[j].fight[1])
    /\ [][C16_WrongLinkCount =>
             /\ pc' = "rows"
             /\ rowIdx' = rowIdx + 1
             /\ fighters_dict' = fighters_dict
             /\ fights_rows' = fights_rows
             /\ stats_rows' = stats_rows
             /\ call' = call]_vars

C16_Witness ==
    /\ pc = "done"
    /\ Len(page.rows) = 2
    /\ Len(page.rows[1].flinks) = 3
    /\ page.rows[1].cols # <<>>
    /\ Accepted(page.rows[2])
    /\ Len(fights_rows) = 1
    /\ Len(stats_rows) = 2
    /\ fighters_dict = <<[fighter_id |-> "A", name |-> "Al"], [fighter_id |-> "B", name |-> "Bo"]>>

----------------------------------------------------------------------------
(* C17 *)

\* the fighter ids linked in the totals row of the page a call reads (none
\* when the page has no totals table or the table no row)
C17_RowIds(a) ==
    IF a.dp.fetch = "ok" /\ TotalsTable(a.dp.tables) # 0
    THEN LET tbl == a.dp.tables[TotalsTable(a.dp.tables)]
         IN  IF tbl.hasRow /\ tbl.cells # <<>>
             THEN {tbl.cells[1].links[i] : i \in 1..Len(tbl.cells[1].links)}
             ELSE {}
    ELSE {}

\* C17: every record parse_fight_stats returns is for f1_id or f2_id and for
\* an id linked in the totals row; a participant whose id is not linked there
\* has no record; there are at most two records, and two only when both
\* participants are linked.
C17_NoFabricatedRecord ==
    (pc = "returned" /\ call.fn = "parse_fight_stats") =>
        /\ Len(ret.rows) <= 2
        /\ \A i \in 1..Len(ret.rows) :
               /\ ret.rows[i].fighter_id \in {call.args.f1_id, call.args.f2_id}
               /\ ret.rows[i].fighter_id \in C17_RowIds(call.args)
        /\ \A id \in {call.args.f1_id, call.args.f2_id} \ C17_RowIds(call.args) :
               \A i \in 1..Len(ret.rows) : ret.rows[i].fighter_id # id
        /\ Len(ret.rows) = 2 => {call.args.f1_id, call.args.f2_id} \subseteq C17_RowIds(call.args)

C17_Witness ==
    /\ pc = "returned"
    /\ call.fn = "parse_fight_stats"
    /\ call.args.f1_id = "C"
    /\ call.args.f2_id = "B"
    /\ C17_RowIds(call.args) = {"A", "B"}
    /\ Len(ret.rows) = 1
    /\ ret.rows[1].fighter_id = "B"

----------------------------------------------------------------------------
(* C18 *)

\* the next row of the loop has cells, a fight link and two fighter links
C18_AcceptedNext == pc = "rows" /\ rowIdx <= Len(page.rows) /\ Accepted(page.rows[rowIdx])

\* the text of the k-th cell from the end of the next row is a whole number
C18_IsNumber(k) ==
    /\ Len(page.rows[rowIdx].cols) >= k
    /\ IsIntegerText(page.rows[rowIdx].cols[Len(page.rows[rowIdx].cols) - k + 1])

\* C18: the step for a row with two fighter links and a fight link never
\* aborts: it appends the row's FightRecord, with round_ended absent when the
\* round text is not a number and with the day of the parse as event_date
\* when the page's date is missing or does not parse, and the stat records
\* it adds have time_fought_seconds absent when the clock text is malformed.
C18_ValueFailureKeepsRow ==
    [][C18_AcceptedNext =>
          /\ pc' = "rows"
          /\ rowIdx' = rowIdx + 1
          /\ Len(fights_rows') = Len(fights_rows) + 1
          /\ SubSeq(fights_rows', 1, Len(fights_rows)) = fights_rows
          /\ fights_rows'[Len(fights_rows')].fight_id = page.rows[rowIdx].fight[1]
          /\ ~C18_IsNumber(2) => fights_rows'[Len(fights_rows')].round_ended = None
          /\ ~C9_DateParses => fights_rows'[Len(fights_rows')].event_date \in Todays
          /\ ClockExpected(ColFromEnd(page.rows[rowIdx].cols, 1)) = None =>
                 \A i \in (Len(stats_rows) + 1)..Len(stats_rows') :
                     stats_rows'[i].time_fought_seconds = None]_vars

----------------------------------------------------------------------------
(* C19 *)

\* the fighter ids of a fighters table or collection
IdsOf(fs) == {fs[i].fighter_id : i \in 1..Len(fs)}

\* the members of a collection whose ids are not in ids, in order
RECURSIVE Unlisted(_, _)
Unlisted(fs, ids) ==
    IF fs = <<>> THEN <<>>
    ELSE IF Head(fs).fighter_id \in ids THEN Unlisted(Tail(fs), ids)
    ELSE <<Head(fs)>> \o Unlisted(Tail(fs), ids)

\* load_recent_events holds the result of parse_event for the current url
C19_EventParsed == loader.fn = "load_recent_events" /\ loader.pc = "parse" /\ pc = "done"

\* C19: in a batch of load_recent_events no fighter_id is in the fighters
\* table twice; the step that ends an event inserts exactly the fighters of
\* its collection whose ids no earlier event of the batch inserted, and for
\* a skipped event (no fights or no stats) it inserts nothing and leaves
\* seen_fighter_ids as it was.
C19_FighterInsertedOnce ==
    /\ []((loader.fn = "load_recent_events" /\ loader.pc \notin {"start", "truncate"}) =>
             \A i, j \in 1..Len(db.fighters) :
                 db.fighters[i].fighter_id = db.fighters[j].fighter_id => i = j)
    /\ [][C19_EventParsed =>
             IF fights_rows = <<>> \/ stats_rows = <<>>
             THEN db' = db /\ seen_fighter_ids' = seen_fighter_ids
             ELSE /\ db'.fighters =
                         db.fighters \o Unlisted(fighters_dict, IdsOf(db.fighters))
                  /\ Len(db'.fights) = Len(db.fights) + Len(fights_rows)]_vars

C19_Witness ==
    /\ loader.fn = "load_recent_events"
    /\ loader.pc = "done"
    /\ Len(event_urls) = 2
    /\ Len(db.fights) = 3
    /\ db.fighters = <<[fighter_id |-> "A", name |-> "Al"],
                       [fighter_id |-> "B", name |-> "Bo"],
                       [fighter_id |-> "C", name |-> "Cy"]>>

----------------------------------------------------------------------------
(* C20 *)

\* a step changes the tables only after the first fetch, and passes on the
\* failure of a later event with the tables as they are
C20_Step ==
    /\ (db' # db /\ loader.fn = "load_recent_events") =>
           (loader.pc \in {"truncate", "parse"} /\ site.listing.fetch = "ok")
    /\ (db' # db /\ loader.fn = "load_single_event") => (pc = "done")
    /\ (loader.fn = "load_recent_events" /\ loader.pc = "parse" /\ pc = "raised") =>
           (loader'.pc = "raised" /\ db' = db)

\* C20: the tables change only after the loader's first fetch succeeded: in
\* load_recent_events only once the listing page was fetched, in
\* load_single_event only once parse_event returned, so when that fetch fails
\* the tables are as they were; when parse_event raises for a later event of
\* load_recent_events the loader raises with the tables truncated and the
\* earlier events' rows left in them.
C20_TruncateAfterFirstFetch ==
    /\ []((loader.fn = "load_recent_events" /\ site.listing.fetch = "raise") => db = OldDb)
    /\ []((loader.fn = "load_single_event" /\ (pc = "raised" \/ loader.pc = "raised")) =>
             db = OldDb)
    /\ []((loader.fn = "load_recent_events" /\ loader.pc = "raised"
               /\ site.listing.fetch = "ok") =>
             /\ pc = "raised"
             /\ \A i \in 1..Len(db.fights) : db.fights[i].fight_id # "old"
             /\ "Z" \notin IdsOf(db.fighters) \cup IdsOf(db.fighter_stats))
    /\ [][C20_Step]_vars

C20_Witness ==
    /\ loader.fn = "load_recent_events"
    /\ loader.pc = "raised"
    /\ urlIdx = 2
    /\ page.fetch = "raise"
    /\ Len(db.fights) = 1
    /\ db.fights[1].fight_id = "F1"

====
